---- MODULE Spec2Model ----
(***************************************************************************)
(* Encrypted configuration store of src-tauri/src/config.rs.               *)
(*                                                                         *)
(* The envelope file is a sequence of tokens (one token per JSON brace or  *)
(* field, or one raw byte), so that a file under construction is a prefix  *)
(* of the text being written.  PBKDF2 and AES-256-GCM are the ideal        *)
(* primitives: a derived key is determined by (password, salt, iteration   *)
(* count) and by nothing less, and a tag verifies only for the key, nonce  *)
(* and body it was computed for.  A stored byte is an octet [n, seal]: the *)
(* byte value n, and the keystream or MAC position it is sealed under      *)
(* (<<>> for a byte that is not the output of the cipher).                 *)
(***************************************************************************)
EXTENDS Integers, Sequences, FiniteSets, TLC

(***************************************************************************)
(* Program constants.                                                      *)
(***************************************************************************)
ENCRYPTION_VERSION == "1.0"
ENCRYPTION_ALGORITHM == "AES-256-GCM"
PBKDF2_ITERATIONS == 100000
SALT_LEN == 32
NONCE_LEN == 12
TAG_LEN == 16
KEY_LEN == 32
SALT_MAX_CHARS == 64
MODE_OWNER_ONLY == 384
MODE_DEFAULT == 420

(***************************************************************************)
(* Bounds of the model.                                                    *)
(***************************************************************************)
NumSaltFills == 2
NumNonceFills == 2

ConfigPath == "config.encrypted"
\* A path that a caller of export_config and import_config names.
ExportPath == "exported-config.json"
Paths == {ConfigPath, ExportPath}

\* The callers: the design assumes at most one writer at a time per config
\* path, so one caller issues save_config and delete_config, the other
\* load_config and config_exists.
Writer == "writer"
Reader == "reader"
Procs == {Writer, Reader}

\* Outcomes of OsRng.fill_bytes that the model draws: a buffer filled with one
\* repeated byte value.
SaltFills == 1..NumSaltFills
NonceFills == 1..NumNonceFills
RandomFills == {65, 167}

Octet(n) == [n |-> n, seal |-> <<>>]
Fill(len, b) == [i \in 1..len |-> Octet(b)]

\* Inputs of the calls: UTF-8 texts (empty, ASCII, two-byte character).
Plaintexts == {<<>>, <<97>>, <<195, 169>>}
Passwords == {<<>>, <<112>>}

(***************************************************************************)
(* Results.                                                                *)
(***************************************************************************)
Ok(v) == [kind |-> "Ok", val |-> v]
Err(e) == [kind |-> "Err", val |-> e]
Panic == [kind |-> "Panic", val |-> "panic"]
IsOk(r) == r.kind = "Ok"
IsErr(r, e) == r.kind = "Err" /\ r.val = e

ConfigErrorKinds ==
    {"Io", "Serialization", "Encryption", "Decryption", "InvalidPassword",
     "ConfigNotFound"}

(***************************************************************************)
(* std::str::from_utf8: the well-formed byte sequences of UTF-8.           *)
(***************************************************************************)
IsCont(b) == b >= 128 /\ b <= 191

RECURSIVE IsUtf8(_)
IsUtf8(s) ==
    IF s = <<>> THEN TRUE
    ELSE LET b == s[1]
             n == Len(s)
             rest(k) == SubSeq(s, k + 1, n)
         IN  IF b <= 127 THEN IsUtf8(rest(1))
             ELSE IF b >= 194 /\ b <= 223
                  THEN n >= 2 /\ IsCont(s[2]) /\ IsUtf8(rest(2))
             ELSE IF b >= 224 /\ b <= 239
                  THEN /\ n >= 3
                       /\ IsCont(s[2])
                       /\ IsCont(s[3])
                       /\ (b = 224 => s[2] >= 160)
                       /\ (b = 237 => s[2] <= 159)
                       /\ IsUtf8(rest(3))
             ELSE IF b >= 240 /\ b <= 244
                  THEN /\ n >= 4
                       /\ IsCont(s[2])
                       /\ IsCont(s[3])
                       /\ IsCont(s[4])
                       /\ (b = 240 => s[2] >= 144)
                       /\ (b = 244 => s[2] <= 143)
                       /\ IsUtf8(rest(4))
             ELSE FALSE

\* Mutant: only ASCII is taken for text.
SecureString_as_str_ascii(data) ==
    IF \A i \in 1..Len(data) : data[i] <= 127 THEN Ok(data) ELSE Err("Utf8Error")

\* SecureString::as_str
SecureString_as_str(data) ==
    IF IsUtf8(data) THEN Ok(data) ELSE Err("Utf8Error")

(***************************************************************************)
(* Strings of the envelope.  A string is the pair of its spelling and of   *)
(* what base64 STANDARD decoding makes of it: `ok' tells whether it is     *)
(* well-formed base64, `dec' the bytes it then decodes to.                 *)
(***************************************************************************)
Literal(s) == [lit |-> s, ok |-> FALSE, dec |-> <<>>, num |-> 0]
Base64Encode(bytes) == [lit |-> "base64", ok |-> TRUE, dec |-> bytes, num |-> 0]
Number(n) == [lit |-> "number", ok |-> FALSE, dec |-> <<>>, num |-> n]
Base64Decode(str) == IF str.ok THEN Ok(str.dec) ELSE Err("DecodeError")

(***************************************************************************)
(* PBKDF2-HMAC-SHA256 and AES-256-GCM.                                     *)
(***************************************************************************)
Pbkdf2(password, salt, rounds) ==
    [pw |-> password, salt |-> salt, rounds |-> rounds]

\* SecureKey::as_bytes: byte j of the key, an octet that is key material.
SecureKey_as_bytes(key) ==
    [j \in 1..KEY_LEN |-> [n |-> j, seal |-> <<key>>]]

\* Aes256Gcm::new_from_slice: the cipher of a key of 32 bytes.
Aes256Gcm_new_from_slice(key_bytes) ==
    IF Len(key_bytes) = KEY_LEN THEN Ok(key_bytes[1].seal[1])
    ELSE Err("InvalidLength")

\* Counter-mode body: byte i of the text under keystream byte i of (key, nonce).
GcmBody(key, nonce, text) ==
    [i \in 1..Len(text) |-> [n |-> text[i], seal |-> <<key, nonce, i>>]]

\* Byte j of the tag of (key, nonce, body).
GcmTag(key, nonce, body) ==
    [j \in 1..TAG_LEN |-> [n |-> j, seal |-> <<key, nonce, body, "tag">>]]

AesGcmEncrypt(key, nonce, text) ==
    LET body == GcmBody(key, nonce, text)
    IN  body \o GcmTag(key, nonce, body)

\* Mutant: the body is decrypted and the tag is not verified.
AesGcmDecrypt_unverified(key, nonce, ct) ==
    IF Len(ct) < TAG_LEN THEN Err("aead::Error")
    ELSE Ok([i \in 1..(Len(ct) - TAG_LEN) |-> ct[i].n])

AesGcmDecrypt(key, nonce, ct) ==
    IF Len(ct) < TAG_LEN THEN Err("aead::Error")
    ELSE LET body == SubSeq(ct, 1, Len(ct) - TAG_LEN)
             tag == SubSeq(ct, Len(ct) - TAG_LEN + 1, Len(ct))
         IN  IF tag = GcmTag(key, nonce, body)
             THEN Ok([i \in 1..Len(body) |-> body[i].n])
             ELSE Err("aead::Error")

(***************************************************************************)
(* The envelope and its on-disk text.                                      *)
(***************************************************************************)
LBrace == [t |-> "{", k |-> "", ty |-> "", v |-> Number(0)]
RBrace == [t |-> "}", k |-> "", ty |-> "", v |-> Number(0)]
StrField(k, s) == [t |-> "field", k |-> k, ty |-> "string", v |-> s]
NumField(k, n) == [t |-> "field", k |-> k, ty |-> "number", v |-> Number(n)]
RawByte(b) == [t |-> "byte", k |-> "", ty |-> "", v |-> Number(b)]

RawBytes(len, b) == [i \in 1..len |-> RawByte(b)]

\* The bytes of a text: a raw byte is itself, a JSON token is ASCII.
TextBytes(content) ==
    [i \in 1..Len(content) |->
        IF content[i].t = "byte" THEN content[i].v.num ELSE 123]

EncryptedConfig(data, salt, nonce, version, algorithm, iterations) ==
    [data |-> data, salt |-> salt, nonce |-> nonce, version |-> version,
     algorithm |-> algorithm, iterations |-> iterations]

\* Mutant: a file without a version is taken for one of an earlier format.
default_version_earlier == Literal("0.9")

default_version == Literal("1.0")
default_algorithm == Literal("AES-256-GCM")
default_iterations == 100000

\* serde_json::to_string_pretty(&encrypted_config)
to_string_pretty(cfg) ==
    << LBrace,
       StrField("data", cfg.data),
       StrField("salt", cfg.salt),
       StrField("nonce", cfg.nonce),
       StrField("version", cfg.version),
       StrField("algorithm", cfg.algorithm),
       NumField("iterations", cfg.iterations),
       RBrace >>

StringKeys == {"data", "salt", "nonce", "version", "algorithm"}
RequiredKeys == {"data", "salt", "nonce"}

\* serde_json::from_str::<EncryptedConfig>: one JSON object, no field of the
\* struct twice, the required fields present, every field of its type; a
\* field the struct does not have is skipped, an absent optional field takes
\* its default.  `iterations' is a u32: a negative number is refused (the
\* numbers of the model are all below 2^32).
from_str(content) ==
    LET n == Len(content)
        inner == 2..(n - 1)
        At(k) == {i \in inner : content[i].k = k}
        Get(k, dflt) ==
            IF At(k) = {} THEN dflt ELSE content[CHOOSE i \in At(k) : TRUE].v
        wellFormed ==
            /\ n >= 2
            /\ content[1].t = "{"
            /\ content[n].t = "}"
            /\ \A i \in inner : content[i].t = "field"
        typed ==
            /\ \A k \in StringKeys \cup {"iterations"} : Cardinality(At(k)) <= 1
            /\ \A k \in RequiredKeys : At(k) # {}
            /\ \A i \in inner :
                  /\ content[i].k \in StringKeys => content[i].ty = "string"
                  /\ content[i].k = "iterations" =>
                        /\ content[i].ty = "number"
                        /\ content[i].v.num >= 0
    IN  IF wellFormed /\ typed
        THEN Ok(EncryptedConfig(
                 Get("data", Literal("")), Get("salt", Literal("")),
                 Get("nonce", Literal("")),
                 Get("version", default_version),
                 Get("algorithm", default_algorithm),
                 Get("iterations", Number(default_iterations)).num))
        ELSE Err("Serialization")

\* fs::read_to_string: the content, when it is UTF-8.
read_to_string(content) ==
    IF IsUtf8(TextBytes(content)) THEN Ok(content) ELSE Err("Io")

(***************************************************************************)
(* ConfigManager: the pure part of save_config and load_config.            *)
(***************************************************************************)
\* SaltString::encode_b64 fails when the unpadded encoding of the salt is
\* longer than Salt::MAX_LENGTH characters.
SaltB64Len(salt) == (4 * Len(salt) + 2) \div 3

\* Mutant: the key is derived from the salt alone.
derive_key_salt_only(password, salt) ==
    IF SaltB64Len(salt) > SALT_MAX_CHARS
    THEN Err("Encryption")
    ELSE Ok(Pbkdf2(<<>>, salt, PBKDF2_ITERATIONS))

derive_key(password, salt) ==
    IF SaltB64Len(salt) > SALT_MAX_CHARS
    THEN Err("Encryption")
    ELSE Ok(Pbkdf2(password, salt, PBKDF2_ITERATIONS))

\* Mutant: the text itself is encoded into `data'.
SealEnvelope_unencrypted(config_json, password, salt, nonce_bytes) ==
    Ok(to_string_pretty(EncryptedConfig(
           Base64Encode([i \in 1..Len(config_json) |-> Octet(config_json[i])]),
           Base64Encode(salt),
           Base64Encode(nonce_bytes),
           Literal(ENCRYPTION_VERSION),
           Literal(ENCRYPTION_ALGORITHM),
           PBKDF2_ITERATIONS)))

\* save_config, lines 192-225: the text it writes.
SealEnvelope(config_json, password, salt, nonce_bytes) ==
    LET secure_key == derive_key(password, salt)
        cipher == Aes256Gcm_new_from_slice(SecureKey_as_bytes(secure_key.val))
    IN  IF ~IsOk(secure_key) THEN secure_key
        ELSE IF ~IsOk(cipher) THEN Err("Encryption")
        ELSE LET encrypted_data ==
                     AesGcmEncrypt(cipher.val, nonce_bytes, config_json)
             IN  Ok(to_string_pretty(EncryptedConfig(
                        Base64Encode(encrypted_data),
                        Base64Encode(salt),
                        Base64Encode(nonce_bytes),
                        Literal(ENCRYPTION_VERSION),
                        Literal(ENCRYPTION_ALGORITHM),
                        PBKDF2_ITERATIONS)))

\* Mutant: the algorithm is not compared.
CheckMetadata_version_only(cfg) ==
    IF cfg.version # Literal(ENCRYPTION_VERSION) THEN Err("Decryption")
    ELSE Ok(cfg)

\* load_config, lines 253-266.
CheckMetadata(cfg) ==
    IF cfg.version # Literal(ENCRYPTION_VERSION) THEN Err("Decryption")
    ELSE IF cfg.algorithm # Literal(ENCRYPTION_ALGORITHM) THEN Err("Decryption")
    ELSE Ok(cfg)

\* load_config, lines 281-293: the key, the nonce, the decryption.
OpenCiphertext(password, encrypted_data, salt, nonce_bytes) ==
    LET secure_key == derive_key(password, salt)
        cipher == Aes256Gcm_new_from_slice(SecureKey_as_bytes(secure_key.val))
    IN  IF ~IsOk(secure_key) THEN secure_key
        ELSE IF ~IsOk(cipher) THEN Err("Decryption")
        ELSE IF Len(nonce_bytes) # NONCE_LEN THEN Panic
        ELSE LET decrypted_data ==
                     AesGcmDecrypt(cipher.val, nonce_bytes, encrypted_data)
             IN  IF IsOk(decrypted_data) THEN decrypted_data
                 ELSE Err("InvalidPassword")

\* load_config, lines 268-301.
DecryptEnvelope(cfg, password) ==
    LET encrypted_data == Base64Decode(cfg.data)
        salt == Base64Decode(cfg.salt)
        nonce_bytes == Base64Decode(cfg.nonce)
    IN  IF ~IsOk(encrypted_data) THEN Err("Decryption")
        ELSE IF ~IsOk(salt) THEN Err("Decryption")
        ELSE IF ~IsOk(nonce_bytes) THEN Err("Decryption")
        ELSE LET decrypted_data ==
                     OpenCiphertext(password, encrypted_data.val, salt.val,
                                    nonce_bytes.val)
             IN  IF ~IsOk(decrypted_data) THEN decrypted_data
                 ELSE IF IsOk(SecureString_as_str(decrypted_data.val))
                      THEN Ok(decrypted_data.val)
                      ELSE Err("Decryption")

\* load_config, lines 250-301: from the file's content to the result.
LoadContent_ungated(content, password) ==
    LET file_content == read_to_string(content)
    IN  IF ~IsOk(file_content) THEN file_content
        ELSE LET encrypted_config == from_str(file_content.val)
             IN  IF ~IsOk(encrypted_config) THEN encrypted_config
                 ELSE DecryptEnvelope(encrypted_config.val, password)

LoadContent(content, password) ==
    LET file_content == read_to_string(content)
    IN  IF ~IsOk(file_content) THEN file_content
        ELSE LET encrypted_config == from_str(file_content.val)
             IN  IF ~IsOk(encrypted_config) THEN encrypted_config
                 ELSE LET gate == CheckMetadata(encrypted_config.val)
                      IN  IF ~IsOk(gate) THEN gate
                          ELSE DecryptEnvelope(encrypted_config.val, password)

\* load_config, lines 282 and 296: the SecureKey and the SecureString of the
\* decrypted text that the call creates on its way (<<>> for one that it
\* does not reach).
LoadSecrets(content, password) ==
    LET encrypted_config == from_str(content)
        cfg == encrypted_config.val
        decoded ==
            /\ IsOk(read_to_string(content))
            /\ IsOk(encrypted_config)
            /\ IsOk(CheckMetadata(cfg))
            /\ IsOk(Base64Decode(cfg.data))
            /\ IsOk(Base64Decode(cfg.salt))
            /\ IsOk(Base64Decode(cfg.nonce))
        secure_key == derive_key(password, cfg.salt.dec)
        decrypted_data ==
            OpenCiphertext(password, cfg.data.dec, cfg.salt.dec, cfg.nonce.dec)
    IN  [secure_key |->
             IF decoded /\ IsOk(secure_key)
             THEN SecureKey_as_bytes(secure_key.val) ELSE <<>>,
         secure_config |->
             IF decoded /\ IsOk(decrypted_data)
             THEN decrypted_data.val ELSE <<>>]

(***************************************************************************)
(* Envelope files that save_config did not write: what an older release,   *)
(* another program or the user's editor left at the config path.           *)
(***************************************************************************)
\* The work factor of an older release.
OLD_ITERATIONS == PBKDF2_ITERATIONS \div 10

ExternalVariants ==
    {"current", "iterations", "version", "algorithm", "nonce_short",
     "salt_long", "salt_empty", "data_base64", "salt_base64", "nonce_base64",
     "not_utf8", "empty_file", "garbage", "no_data"}

\* The envelope of variant x: sealed with `password' under the variant's
\* iteration count, and differing from the current format in one respect.
ExternalFile(x, password) ==
    LET rounds == IF x = "iterations" THEN OLD_ITERATIONS ELSE PBKDF2_ITERATIONS
        salt == IF x = "salt_long" THEN Fill((3 * SALT_MAX_CHARS) \div 4 + 1, 1)
                ELSE IF x = "salt_empty" THEN <<>>
                ELSE Fill(SALT_LEN, 1)
        nonce == IF x = "nonce_short" THEN Fill(NONCE_LEN - 4, 1)
                 ELSE Fill(NONCE_LEN, 1)
        text == IF x = "not_utf8" THEN <<255>> ELSE <<97>>
        key == Pbkdf2(password, salt, rounds)
        cfg == EncryptedConfig(
                   IF x = "data_base64" THEN Literal("!")
                   ELSE Base64Encode(AesGcmEncrypt(key, nonce, text)),
                   IF x = "salt_base64" THEN Literal("!")
                   ELSE Base64Encode(salt),
                   IF x = "nonce_base64" THEN Literal("!")
                   ELSE Base64Encode(nonce),
                   IF x = "version" THEN Literal("2.0")
                   ELSE Literal(ENCRYPTION_VERSION),
                   IF x = "algorithm" THEN Literal("ChaCha20-Poly1305")
                   ELSE Literal(ENCRYPTION_ALGORITHM),
                   rounds)
        json == to_string_pretty(cfg)
    IN  IF x = "empty_file" THEN <<>>
        ELSE IF x = "garbage" THEN RawBytes(3, 0)
        ELSE IF x = "no_data" THEN <<json[1]>> \o SubSeq(json, 3, Len(json))
        ELSE json

(***************************************************************************)
(* State.                                                                  *)
(***************************************************************************)
VARIABLES
    fs,      \* path -> the file at the path
    pc,      \* caller -> where it is in its call
    call,    \* caller -> the operation in progress and its arguments
    loc,     \* caller -> the locals of the call
    result,  \* caller -> what the finished call returned
    hist     \* history: what was last stored and by whom (`saved', `tampered',
             \* `placed'), the last change of the file (`lastMut'), and what
             \* it was when the latest delete_config, or the save_config in
             \* progress, began (`before'), the envelope that the latest
             \* save_config found as an earlier one had left it (`first':
             \* its password, and until the save_config is over its text),
             \* the text and the path of the latest export_config, while
             \* the file at the path is what it wrote (`exported')

vars == <<fs, pc, call, loc, result, hist>>

NoFile == [exists |-> FALSE, content |-> <<>>, mode |-> 0]
NoCall == [op |-> "none", config_json |-> <<>>, password |-> <<>>]
NoLocals ==
    [buf |-> <<>>, found |-> FALSE, file_size |-> 0, path |-> ConfigPath,
     secure_password |-> <<>>, secure_config |-> <<>>, secure_key |-> <<>>]
NoResult == [kind |-> "None", val |-> "none"]
NothingSaved == [ok |-> FALSE, config_json |-> <<>>, password |-> <<>>]
NothingPlaced == [variant |-> "none", password |-> <<>>]
NothingBefore ==
    [ok |-> FALSE, config_json |-> <<>>, password |-> <<>>, content |-> <<>>]
NothingExported == [ok |-> FALSE, path |-> ConfigPath, config_json |-> <<>>]

AllIdle == \A q \in Procs : pc[q] = "idle"

Init ==
    /\ fs = [path \in Paths |-> NoFile]
    /\ pc = [p \in Procs |-> "idle"]
    /\ call = [p \in Procs |-> NoCall]
    /\ loc = [p \in Procs |-> NoLocals]
    /\ result = [p \in Procs |-> NoResult]
    /\ hist = [saved |-> NothingSaved, tampered |-> "no", placed |-> NothingPlaced,
               lastMut |-> "none", before |-> "none", first |-> NothingBefore,
               exported |-> NothingExported]

\* A call returns: its result is in `result', its caller at "done".
Finish(p, r) ==
    /\ pc' = [pc EXCEPT ![p] = "done"]
    /\ result' = [result EXCEPT ![p] = r]

Goto(p, label) ==
    /\ pc' = [pc EXCEPT ![p] = label]
    /\ UNCHANGED result

(***************************************************************************)
(* SecureString and SecureKey: #[derive(ZeroizeOnDrop)].  The locals of a  *)
(* call are dropped when it returns, by its last line or by a `?'.         *)
(***************************************************************************)
\* Mutant: the buffer is freed as it is.
Zeroize_freed(data) == data

\* Zeroize for Vec<u8>: every byte of the buffer becomes 0.
Zeroize(data) == [i \in 1..Len(data) |-> 0]

\* Zeroize for [u8; 32].
ZeroizeKey(key) == [j \in 1..Len(key) |-> Octet(0)]

\* The secure locals after the drop.
Dropped(locals) ==
    [locals EXCEPT !.secure_password = Zeroize(@),
                   !.secure_config = Zeroize(@),
                   !.secure_key = ZeroizeKey(@)]

(***************************************************************************)
(* std::fs::write(path, data): File::create, then write_all.               *)
(***************************************************************************)
CreateLabels ==
    {"save_create", "del_rand_create", "del_zero_create", "export_create"}
WriteLabels ==
    {"save_write", "del_rand_write", "del_zero_write", "export_write"}

AfterCreate(label) ==
    CASE label = "save_create" -> "save_write"
      [] label = "del_rand_create" -> "del_rand_write"
      [] label = "del_zero_create" -> "del_zero_write"
      [] label = "export_create" -> "export_write"

\* Mutant: the file is removed after the random overwrite.
AfterWrite_no_zeros(label) ==
    CASE label = "save_write" -> "save_chmod"
      [] label = "del_rand_write" -> "del_remove"
      [] label = "del_zero_write" -> "del_remove"
      [] label = "export_write" -> "export_ok"

AfterWrite(label) ==
    CASE label = "save_write" -> "save_chmod"
      [] label = "del_rand_write" -> "del_zero_create"
      [] label = "del_zero_write" -> "del_remove"
      [] label = "export_write" -> "export_ok"

\* Mutant: the file is opened for writing and not truncated.
CreatedFile_kept(old) ==
    [exists |-> TRUE, content |-> old.content,
     mode |-> IF old.exists THEN old.mode ELSE MODE_DEFAULT]

\* File::create: the file is created with the default mode when absent, and
\* truncated (its mode kept) otherwise.
CreatedFile(old) ==
    [exists |-> TRUE, content |-> <<>>,
     mode |-> IF old.exists THEN old.mode ELSE MODE_DEFAULT]

\* Mutant: whatever the path of the call, the file at the config path is
\* the one created or truncated.
FsCreate_config_path(p) ==
    /\ pc[p] \in CreateLabels
    /\ fs' = [fs EXCEPT ![ConfigPath] = CreatedFile(fs[ConfigPath])]
    /\ Goto(p, AfterCreate(pc[p]))
    /\ UNCHANGED <<call, loc, hist>>

FsCreate(p) ==
    /\ pc[p] \in CreateLabels
    /\ fs' = [fs EXCEPT ![loc[p].path] = CreatedFile(fs[loc[p].path])]
    /\ Goto(p, AfterCreate(pc[p]))
    /\ UNCHANGED <<call, loc, hist>>

\* write_all: one write system call appends the next bytes of the buffer; the
\* call after the last one returns.  After the random overwrite the buffer of
\* the zero overwrite is prepared (secure_delete_file, line 182).
FsWrite(p) ==
    /\ pc[p] \in WriteLabels
    /\ LET done == Len(fs[loc[p].path].content)
           todo == Len(loc[p].buf) - done
       IN  /\ todo > 0
           /\ \E n \in 1..todo :
                 fs' = [fs EXCEPT ![loc[p].path].content =
                           @ \o SubSeq(loc[p].buf, done + 1, done + n)]
    /\ UNCHANGED <<pc, call, loc, result, hist>>

FsWritten(p) ==
    /\ pc[p] \in WriteLabels
    /\ Len(fs[loc[p].path].content) = Len(loc[p].buf)
    /\ Goto(p, AfterWrite(pc[p]))
    /\ loc' = [loc EXCEPT ![p].buf =
                 IF pc[p] = "del_rand_write"
                 THEN RawBytes(loc[p].file_size, 0) ELSE @]
    /\ UNCHANGED <<fs, call, hist>>

(***************************************************************************)
(* ConfigManager::save_config                                              *)
(***************************************************************************)
generate_secure_salt(b) == Fill(SALT_LEN, b)
\* Mutant: a nonce of the size of an AES block.
generate_secure_nonce_block(b) == Fill(TAG_LEN, b)

generate_secure_nonce(b) == Fill(NONCE_LEN, b)

\* Lines 192-225: the salt and the nonce are drawn, the envelope is sealed and
\* serialised; nothing is written yet.
StartSave(p, config_json, password, s, n) ==
    /\ pc[p] = "idle"
    /\ call' = [call EXCEPT ![p] =
                  [op |-> "save", config_json |-> config_json,
                   password |-> password]]
    /\ LET salt == generate_secure_salt(s)
           secure_key == derive_key(password, salt)
           json_data == SealEnvelope(config_json, password, salt,
                                     generate_secure_nonce(n))
           locals == [loc[p] EXCEPT !.secure_password = password,
                                    !.secure_config = config_json]
       IN  IF IsOk(json_data)
           THEN /\ Goto(p, "save_create")
                /\ loc' = [loc EXCEPT ![p] =
                             [locals EXCEPT
                                 !.buf = json_data.val,
                                 !.secure_key =
                                     SecureKey_as_bytes(secure_key.val)]]
           ELSE /\ Finish(p, json_data)
                /\ loc' = [loc EXCEPT ![p] = Dropped(locals)]
    /\ hist' = [hist EXCEPT
                  !.saved = NothingSaved, !.tampered = "no",
                  !.placed = NothingPlaced, !.before = hist.lastMut,
                  !.exported = IF @.path = ConfigPath THEN NothingExported ELSE @,
                  !.first =
                      IF hist.saved.ok /\ hist.tampered = "no"
                      THEN [ok |-> TRUE,
                            config_json |-> hist.saved.config_json,
                            password |-> hist.saved.password,
                            content |-> fs[ConfigPath].content]
                      ELSE NothingBefore]
    /\ UNCHANGED fs

\* Mutant: the mode is left as File::create made it.
SaveChmod_skipped(p) ==
    /\ pc[p] = "save_chmod"
    /\ Finish(p, Ok("unit"))
    /\ hist' = [hist EXCEPT
                  !.saved = [ok |-> TRUE,
                             config_json |-> call[p].config_json,
                             password |-> call[p].password],
                  !.lastMut = "save"]
    /\ loc' = [loc EXCEPT ![p] = Dropped(@)]
    /\ UNCHANGED <<fs, call>>

\* Lines 230-238: the mode is set to owner read/write after the write.
SaveChmod(p) ==
    /\ pc[p] = "save_chmod"
    /\ IF fs[ConfigPath].exists
       THEN /\ fs' = [fs EXCEPT ![ConfigPath].mode = MODE_OWNER_ONLY]
            /\ Finish(p, Ok("unit"))
            /\ hist' = [hist EXCEPT
                          !.saved = [ok |-> TRUE,
                                     config_json |-> call[p].config_json,
                                     password |-> call[p].password],
                          !.lastMut = "save"]
       ELSE /\ Finish(p, Err("Io"))
            /\ UNCHANGED <<fs, hist>>
    /\ loc' = [loc EXCEPT ![p] = Dropped(@)]
    /\ UNCHANGED call

(***************************************************************************)
(* ConfigManager::load_config                                              *)
(***************************************************************************)
StartLoad(p, password) ==
    /\ pc[p] = "idle"
    /\ call' = [call EXCEPT ![p] =
                  [op |-> "load", config_json |-> <<>>, password |-> password]]
    /\ loc' = [loc EXCEPT ![p].secure_password = password]
    /\ Goto(p, "load_exists")
    /\ UNCHANGED <<fs, hist>>

\* Mutant: the file is read without the existence check.
LoadExists_unchecked(p) ==
    /\ pc[p] = "load_exists"
    /\ loc' = [loc EXCEPT ![p].found = TRUE]
    /\ Goto(p, "load_read")
    /\ UNCHANGED <<fs, call, hist>>

\* Lines 245-247.
LoadExists(p) ==
    /\ pc[p] = "load_exists"
    /\ IF fs[ConfigPath].exists
       THEN /\ Goto(p, "load_read")
            /\ loc' = [loc EXCEPT ![p].found = TRUE]
       ELSE /\ Finish(p, Err("ConfigNotFound"))
            /\ loc' = [loc EXCEPT ![p] = Dropped([@ EXCEPT !.found = FALSE])]
    /\ UNCHANGED <<fs, call, hist>>

\* Lines 250-301: the file is read as it is now, and decoded.  A return
\* drops the locals; a panic drops them when the build unwinds, and leaves
\* them when it aborts.
LoadRead(p) ==
    /\ pc[p] = "load_read"
    /\ IF fs[ConfigPath].exists
       THEN LET content == fs[ConfigPath].content
                r == LoadContent(content, call[p].password)
                secrets == LoadSecrets(content, call[p].password)
                locals == [loc[p] EXCEPT !.buf = content,
                                         !.secure_key = secrets.secure_key,
                                         !.secure_config = secrets.secure_config]
            IN  /\ Finish(p, r)
                /\ \E unwind \in BOOLEAN :
                      /\ r.kind # "Panic" => unwind
                      /\ loc' = [loc EXCEPT ![p] =
                                   IF unwind THEN Dropped(locals) ELSE locals]
       ELSE /\ Finish(p, Err("Io"))
            /\ loc' = [loc EXCEPT ![p] = Dropped(@)]
    /\ UNCHANGED <<fs, call, hist>>

(***************************************************************************)
(* ConfigManager::config_exists                                            *)
(***************************************************************************)
StartExists(p) ==
    /\ pc[p] = "idle"
    /\ call' = [call EXCEPT ![p] =
                  [op |-> "exists", config_json |-> <<>>, password |-> <<>>]]
    /\ Goto(p, "exists_check")
    /\ UNCHANGED <<fs, loc, hist>>

ExistsCheck(p) ==
    /\ pc[p] = "exists_check"
    /\ Finish(p, Ok(fs[ConfigPath].exists))
    /\ UNCHANGED <<fs, call, loc, hist>>

(***************************************************************************)
(* ConfigManager::delete_config and secure_delete_file                     *)
(***************************************************************************)
StartDelete(p) ==
    /\ pc[p] = "idle"
    /\ call' = [call EXCEPT ![p] =
                  [op |-> "delete", config_json |-> <<>>, password |-> <<>>]]
    /\ Goto(p, "del_exists")
    /\ hist' = [hist EXCEPT !.saved = NothingSaved, !.tampered = "no",
                            !.placed = NothingPlaced, !.before = hist.lastMut,
                            !.first = NothingBefore,
                            !.exported = IF @.path = ConfigPath
                                         THEN NothingExported ELSE @]
    /\ UNCHANGED <<fs, loc>>

\* Mutant: the overwrite starts without the existence check.
DelExists_unchecked(p) ==
    /\ pc[p] = "del_exists"
    /\ loc' = [loc EXCEPT ![p].found = TRUE]
    /\ Goto(p, "del_metadata")
    /\ UNCHANGED <<fs, call, hist>>

\* Line 173.
DelExists(p) ==
    /\ pc[p] = "del_exists"
    /\ loc' = [loc EXCEPT ![p].found = fs[ConfigPath].exists]
    /\ IF fs[ConfigPath].exists
       THEN /\ Goto(p, "del_metadata")
            /\ UNCHANGED hist
       ELSE /\ Finish(p, Ok("unit"))
            /\ hist' = [hist EXCEPT !.lastMut = "delete"]
    /\ UNCHANGED <<fs, call>>

\* Lines 175-178: the size is read and the random buffer filled.
DelMetadata(p) ==
    /\ pc[p] = "del_metadata"
    /\ IF ~fs[ConfigPath].exists
       THEN /\ Finish(p, Err("Io"))
            /\ UNCHANGED loc
       ELSE LET file_size == Len(fs[ConfigPath].content)
            IN  IF file_size > 0
                THEN /\ \E r \in RandomFills :
                          loc' = [loc EXCEPT ![p].file_size = file_size,
                                             ![p].buf = RawBytes(file_size, r)]
                     /\ Goto(p, "del_rand_create")
                ELSE /\ loc' = [loc EXCEPT ![p].file_size = file_size]
                     /\ Goto(p, "del_remove")
    /\ UNCHANGED <<fs, call, hist>>

\* Mutant: the overwritten file is left in place.
DelRemove_kept(p) ==
    /\ pc[p] = "del_remove"
    /\ Finish(p, Ok("unit"))
    /\ hist' = [hist EXCEPT !.lastMut = "delete"]
    /\ UNCHANGED <<fs, call, loc>>

\* Line 186.
DelRemove(p) ==
    /\ pc[p] = "del_remove"
    /\ IF fs[ConfigPath].exists
       THEN /\ fs' = [fs EXCEPT ![ConfigPath] = NoFile]
            /\ Finish(p, Ok("unit"))
            /\ hist' = [hist EXCEPT !.lastMut = "delete"]
       ELSE /\ Finish(p, Err("Io"))
            /\ UNCHANGED <<fs, hist>>
    /\ UNCHANGED <<call, loc>>

(***************************************************************************)
(* ConfigManager::export_config and ConfigManager::import_config           *)
(***************************************************************************)
\* Mutant: the text is written as a JSON string, between quotes.
StringBytes_quoted(config_json) ==
    <<RawByte(34)>> \o [i \in 1..Len(config_json) |-> RawByte(config_json[i])]
        \o <<RawByte(34)>>

\* The bytes of a &str as fs::write receives them.
StringBytes(config_json) ==
    [i \in 1..Len(config_json) |-> RawByte(config_json[i])]

\* Lines 315-316: the path is taken as it is given.  A file at the config
\* path is no longer what save_config made of it.
StartExport(p, export_path, config_json) ==
    /\ pc[p] = "idle"
    /\ call' = [call EXCEPT ![p] =
                  [op |-> "export", config_json |-> config_json,
                   password |-> <<>>]]
    /\ loc' = [loc EXCEPT ![p].path = export_path,
                          ![p].buf = StringBytes(config_json)]
    /\ Goto(p, "export_create")
    /\ hist' = IF export_path = ConfigPath
               THEN [hist EXCEPT !.saved = NothingSaved, !.tampered = "no",
                                 !.placed = NothingPlaced, !.before = "none",
                                 !.first = NothingBefore, !.lastMut = "export",
                                 !.exported = NothingExported]
               ELSE [hist EXCEPT !.exported = NothingExported]
    /\ UNCHANGED fs

\* Line 317.
ExportOk(p) ==
    /\ pc[p] = "export_ok"
    /\ Finish(p, Ok("unit"))
    /\ hist' = [hist EXCEPT !.exported =
                  [ok |-> TRUE, path |-> loc[p].path,
                   config_json |-> call[p].config_json]]
    /\ UNCHANGED <<fs, call, loc>>

StartImport(p, import_path) ==
    /\ pc[p] = "idle"
    /\ call' = [call EXCEPT ![p] =
                  [op |-> "import", config_json |-> <<>>, password |-> <<>>]]
    /\ loc' = [loc EXCEPT ![p].path = import_path]
    /\ Goto(p, "import_exists")
    /\ UNCHANGED <<fs, hist>>

\* Mutant: the file is read without the existence check.
ImportExists_unchecked(p) ==
    /\ pc[p] = "import_exists"
    /\ loc' = [loc EXCEPT ![p].found = TRUE]
    /\ Goto(p, "import_read")
    /\ UNCHANGED <<fs, call, hist>>

\* Lines 322-324.
ImportExists(p) ==
    /\ pc[p] = "import_exists"
    /\ loc' = [loc EXCEPT ![p].found = fs[loc[p].path].exists]
    /\ IF fs[loc[p].path].exists
       THEN Goto(p, "import_read")
       ELSE Finish(p, Err("ConfigNotFound"))
    /\ UNCHANGED <<fs, call, hist>>

\* Lines 325-326: the text of the file, when it is UTF-8.
ImportRead(p) ==
    /\ pc[p] = "import_read"
    /\ IF fs[loc[p].path].exists
       THEN LET config_json == read_to_string(fs[loc[p].path].content)
            IN  /\ loc' = [loc EXCEPT ![p].buf = fs[loc[p].path].content]
                /\ Finish(p, IF IsOk(config_json)
                             THEN Ok(TextBytes(config_json.val))
                             ELSE config_json)
       ELSE /\ Finish(p, Err("Io"))
            /\ UNCHANGED loc
    /\ UNCHANGED <<fs, call, hist>>

(***************************************************************************)
(* The caller takes the result; the next call may start.                   *)
(***************************************************************************)
Return(p) ==
    /\ pc[p] = "done"
    /\ pc' = [pc EXCEPT ![p] = "idle"]
    /\ call' = [call EXCEPT ![p] = NoCall]
    /\ loc' = [loc EXCEPT ![p] = NoLocals]
    /\ result' = [result EXCEPT ![p] = NoResult]
    /\ hist' = IF call[p].op = "save"
               THEN [hist EXCEPT !.before = "none",
                                 !.first = [@ EXCEPT !.config_json = <<>>,
                                                     !.content = <<>>]]
               ELSE hist
    /\ UNCHANGED fs

(***************************************************************************)
(* The environment: a file put at the config path, a stored byte changed.  *)
(***************************************************************************)
PlaceFile(x, password) ==
    /\ AllIdle
    /\ fs' = [fs EXCEPT ![ConfigPath] =
                [exists |-> TRUE, content |-> ExternalFile(x, password),
                 mode |-> MODE_DEFAULT]]
    /\ hist' = [hist EXCEPT !.saved = NothingSaved, !.tampered = "no",
                            !.placed = [variant |-> x, password |-> password],
                            !.lastMut = "env", !.before = "none",
                            !.first = NothingBefore,
                            !.exported = IF @.path = ConfigPath
                                         THEN NothingExported ELSE @]
    /\ UNCHANGED <<pc, call, loc, result>>

TamperFields == {"data", "salt", "nonce"}
FieldIndex(k) == CASE k = "data" -> 2 [] k = "salt" -> 3 [] k = "nonce" -> 4

\* The octet with every bit of its value inverted.
Flip(o) == [o EXCEPT !.n = 255 - @]

\* The positions the environment changes: the first and the last byte of a
\* field, and the bytes on either side of the tag boundary.
TamperPositions(bytes) ==
    {1, Len(bytes) - TAG_LEN, Len(bytes) - TAG_LEN + 1, Len(bytes)}
        \cap (1..Len(bytes))

\* Byte i of one base64 field of the saved envelope is changed on disk; the
\* field keeps its length.
TamperByte(k, i) ==
    /\ AllIdle
    /\ hist.saved.ok
    /\ hist.tampered = "no"
    /\ LET bytes == fs[ConfigPath].content[FieldIndex(k)].v.dec
       IN  /\ i \in TamperPositions(bytes)
           /\ fs' = [fs EXCEPT ![ConfigPath].content[FieldIndex(k)].v =
                        Base64Encode([bytes EXCEPT ![i] = Flip(@)])]
    /\ hist' = [hist EXCEPT !.tampered = k, !.lastMut = "tamper",
                            !.first = NothingBefore]
    /\ UNCHANGED <<pc, call, loc, result>>

\* The last byte of the stored ciphertext is cut off.
TruncateData ==
    /\ AllIdle
    /\ hist.saved.ok
    /\ hist.tampered = "no"
    /\ LET bytes == fs[ConfigPath].content[FieldIndex("data")].v.dec
       IN  fs' = [fs EXCEPT ![ConfigPath].content[FieldIndex("data")].v =
                     Base64Encode(SubSeq(bytes, 1, Len(bytes) - 1))]
    /\ hist' = [hist EXCEPT !.tampered = "truncated", !.lastMut = "tamper",
                            !.first = NothingBefore]
    /\ UNCHANGED <<pc, call, loc, result>>

(***************************************************************************)
(* Specifications.  Spec: one call at a time.  SpecConc: the writer's call *)
(* and the reader's call interleave step by step.                          *)
(***************************************************************************)
save_config ==
    \E config_json \in Plaintexts, password \in Passwords,
       s \in SaltFills, n \in NonceFills :
        AllIdle /\ StartSave(Writer, config_json, password, s, n)

load_config == \E password \in Passwords : AllIdle /\ StartLoad(Reader, password)

config_exists == AllIdle /\ StartExists(Reader)

delete_config == AllIdle /\ StartDelete(Writer)

Step ==
    \E p \in Procs :
        \/ FsCreate(p)
        \/ FsWrite(p)
        \/ FsWritten(p)
        \/ SaveChmod(p)
        \/ LoadExists(p)
        \/ LoadRead(p)
        \/ ExistsCheck(p)
        \/ DelExists(p)
        \/ DelMetadata(p)
        \/ DelRemove(p)
        \/ Return(p)

Environment ==
    \/ \E x \in ExternalVariants, password \in Passwords : PlaceFile(x, password)
    \/ \E k \in TamperFields, i \in 1..SALT_LEN : TamperByte(k, i)
    \/ TruncateData

Next == save_config \/ load_config \/ config_exists \/ delete_config
            \/ Step \/ Environment

Spec == Init /\ [][Next]_vars

\* The same calls, each starting whenever its caller is idle.  The file is
\* changed by the writer alone, and the random source draws its first value.
concurrent_save_config ==
    \E config_json \in Plaintexts, password \in Passwords :
        StartSave(Writer, config_json, password, 1, 1)

concurrent_load_config == \E password \in Passwords : StartLoad(Reader, password)

concurrent_config_exists == StartExists(Reader)

concurrent_delete_config == StartDelete(Writer)

NextConc ==
    \/ concurrent_save_config
    \/ concurrent_load_config
    \/ concurrent_config_exists
    \/ concurrent_delete_config
    \/ Step

SpecConc == Init /\ [][NextConc]_vars

(***************************************************************************)
(* SpecExport: export_config and import_config at the paths, beside the    *)
(* store; one call at a time, the random source drawing its first value.   *)
(***************************************************************************)
export_config ==
    \E export_path \in Paths, config_json \in Plaintexts :
        AllIdle /\ StartExport(Writer, export_path, config_json)

import_config ==
    \E import_path \in Paths : AllIdle /\ StartImport(Reader, import_path)

first_draw_save_config ==
    \E config_json \in Plaintexts, password \in Passwords :
        AllIdle /\ StartSave(Writer, config_json, password, 1, 1)

StepExport ==
    \E p \in Procs :
        \/ FsCreate(p)
        \/ FsWrite(p)
        \/ FsWritten(p)
        \/ SaveChmod(p)
        \/ LoadExists(p)
        \/ LoadRead(p)
        \/ ExportOk(p)
        \/ ImportExists(p)
        \/ ImportRead(p)
        \/ Return(p)

NextExport ==
    \/ export_config
    \/ import_config
    \/ first_draw_save_config
    \/ load_config
    \/ StepExport

SpecExport == Init /\ [][NextExport]_vars

(***************************************************************************)
(* impl Debug for SecureString.  SpecDebug: each caller holds a            *)
(* SecureString and formats it with {:?}.                                  *)
(***************************************************************************)
\* Mutant: what #[derive(Debug)] writes.
SecureString_fmt_derived(data) ==
    <<"SecureString { data: [">> \o [i \in 1..Len(data) |-> ToString(data[i])]
        \o <<"] }">>

\* The pieces written to the formatter (lines 78-82).
SecureString_fmt(data) == <<"SecureString([REDACTED])">>

\* The contents formatted: the byte strings of up to two bytes.
DebugBytes == {0, 97, 255}
DebugContents ==
    {<<>>} \cup {<<a>> : a \in DebugBytes}
           \cup {<<a, b>> : a \in DebugBytes, b \in DebugBytes}

InitDebug ==
    /\ fs = [path \in Paths |-> NoFile]
    /\ pc = [p \in Procs |-> "idle"]
    /\ call = [p \in Procs |-> NoCall]
    /\ \E held \in [Procs -> DebugContents] :
          loc = [p \in Procs |-> [NoLocals EXCEPT !.secure_config = held[p]]]
    /\ result = [p \in Procs |-> NoResult]
    /\ hist = [saved |-> NothingSaved, tampered |-> "no", placed |-> NothingPlaced,
               lastMut |-> "none", before |-> "none", first |-> NothingBefore,
               exported |-> NothingExported]

DebugFmt(p) ==
    /\ pc[p] = "idle"
    /\ call' = [call EXCEPT ![p] =
                  [op |-> "debug", config_json |-> <<>>, password |-> <<>>]]
    /\ Finish(p, Ok(SecureString_fmt(loc[p].secure_config)))
    /\ UNCHANGED <<fs, loc, hist>>

NextDebug == \E p \in Procs : DebugFmt(p)

SpecDebug == InitDebug /\ [][NextDebug]_vars

(***************************************************************************)
(* Properties.                                                             *)
(***************************************************************************)
LoadDone == pc[Reader] = "done" /\ call[Reader].op = "load"
ExistsDone == pc[Reader] = "done" /\ call[Reader].op = "exists"
DeleteDone == pc[Writer] = "done" /\ call[Writer].op = "delete"
SaveDone == pc[Writer] = "done" /\ call[Writer].op = "save"

\* The file is the envelope of the last save_config, untouched since.
Intact == hist.saved.ok /\ hist.tampered = "no"

\* C1: round trip.  A load_config with the password of the save_config that
\* wrote the file, nothing having changed the file in between, returns Ok
\* with the very bytes that were saved.
C1_RoundTrip ==
    (LoadDone /\ Intact /\ call[Reader].password = hist.saved.password)
        => /\ IsOk(result[Reader])
           /\ result[Reader].val = hist.saved.config_json

\* The non-ASCII text has been saved and loaded back.
C1_Witness ==
    /\ LoadDone
    /\ Intact
    /\ call[Reader].password = hist.saved.password
    /\ hist.saved.config_json = <<195, 169>>
    /\ IsOk(result[Reader])

C3_TamperDetection ==
    (LoadDone /\ hist.saved.ok /\ hist.tampered # "no")
        => /\ call[Reader].password = hist.saved.password
                => IsErr(result[Reader], "InvalidPassword")
           /\ ~(IsOk(result[Reader])
                    /\ result[Reader].val # hist.saved.config_json)

\* A byte of the ciphertext body was changed and the load was refused.
C3_Witness ==
    /\ LoadDone
    /\ hist.saved.ok
    /\ hist.tampered = "data"
    /\ call[Reader].password = hist.saved.password
    /\ fs[ConfigPath].content[FieldIndex("data")].v.dec[1].n = 255 - 97
    /\ IsErr(result[Reader], "InvalidPassword")

\* C4: stored iteration count.  An envelope sealed under PBKDF2 with the
\* iteration count n that its `iterations' field holds, n other than the
\* current constant, is decrypted by load_config with the right password.
C4_StoredIterations ==
    (LoadDone /\ hist.placed.variant = "iterations"
              /\ call[Reader].password = hist.placed.password)
        => /\ IsOk(result[Reader])
           /\ result[Reader].val = <<97>>

\* C5: atomic replacement.  A load_config that reads the file while a
\* save_config replaces a saved envelope reads a complete envelope.
C5_AtomicReplacement ==
    [][(/\ pc[Reader] = "load_read"
        /\ pc'[Reader] = "done"
        /\ fs[ConfigPath].exists
        /\ call[Writer].op = "save"
        /\ hist.lastMut = "save")
          => IsOk(from_str(loc'[Reader].buf))]_vars

\* C6: closed error taxonomy.  Whatever the file holds, load_config returns
\* Ok or one of the six kinds of ConfigError.
C6_ClosedErrors ==
    LoadDone =>
        \/ IsOk(result[Reader])
        \/ result[Reader].kind = "Err" /\ result[Reader].val \in ConfigErrorKinds

\* The envelope that load_config has parsed from the file (one call at a time:
\* the file is what the call read).
StoredConfig == from_str(fs[ConfigPath].content)
HasEnvelope ==
    /\ fs[ConfigPath].exists
    /\ IsOk(read_to_string(fs[ConfigPath].content))
    /\ IsOk(StoredConfig)

\* C7: compatibility gate.  For an envelope whose version is not "1.0" or
\* whose algorithm is not "AES-256-GCM", load_config returns Decryption with
\* every password.
C7_CompatibilityGate ==
    (/\ LoadDone
     /\ HasEnvelope
     /\ \/ StoredConfig.val.version # Literal("1.0")
        \/ StoredConfig.val.algorithm # Literal("AES-256-GCM"))
        => IsErr(result[Reader], "Decryption")

\* The envelope of another algorithm was refused to the password that sealed it.
C7_Witness ==
    /\ LoadDone
    /\ HasEnvelope
    /\ StoredConfig.val.version = Literal("1.0")
    /\ StoredConfig.val.algorithm # Literal("AES-256-GCM")
    /\ call[Reader].password = hist.placed.password
    /\ IsErr(result[Reader], "Decryption")

\* C8: missing file.  With no file at the config path, load_config returns
\* ConfigNotFound and config_exists returns false.
C8_MissingFile ==
    ~fs[ConfigPath].exists
        => /\ LoadDone => IsErr(result[Reader], "ConfigNotFound")
           /\ ExistsDone => (IsOk(result[Reader]) /\ result[Reader].val = FALSE)

C8_Witness ==
    /\ ~fs[ConfigPath].exists
    /\ LoadDone
    /\ call[Reader].password = <<112>>
    /\ IsErr(result[Reader], "ConfigNotFound")

\* C9: delete idempotence.  delete_config returns Ok and leaves no file,
\* whether or not there was one; so does a second delete_config after it.
C9_DeleteIdempotent ==
    DeleteDone => (IsOk(result[Writer]) /\ ~fs[ConfigPath].exists)

\* A delete_config that followed a delete_config, and found no file.
C9_Witness ==
    /\ DeleteDone
    /\ hist.before = "delete"
    /\ ~loc[Writer].found
    /\ IsOk(result[Writer])

\* C10: after save_config and delete_config calls, one at a time,
\* config_exists returns true exactly when the latest was a save_config, and
\* load_config after a delete_config returns ConfigNotFound.
C10_ExistsAfterLatest ==
    /\ (ExistsDone /\ hist.lastMut \in {"save", "delete"})
          => /\ IsOk(result[Reader])
             /\ result[Reader].val = (hist.lastMut = "save")
    /\ (LoadDone /\ hist.lastMut = "delete")
          => IsErr(result[Reader], "ConfigNotFound")

\* config_exists after a save_config and then a delete_config.
C10_Witness ==
    /\ ExistsDone
    /\ hist.lastMut = "delete"
    /\ hist.before = "save"
    /\ result[Reader].val = FALSE

\* C12: file mode.  After every save_config that returns Ok the envelope
\* file exists with mode 0600, whether the call created it or found it there
\* with a more permissive mode.
C12_OwnerOnlyMode ==
    (SaveDone /\ IsOk(result[Writer]))
        => /\ fs[ConfigPath].exists
           /\ fs[ConfigPath].mode = MODE_OWNER_ONLY

\* A save_config over a file that was put there with mode 0644.
C12_Witness ==
    /\ SaveDone
    /\ IsOk(result[Writer])
    /\ hist.before = "env"
    /\ fs[ConfigPath].mode = MODE_OWNER_ONLY

\* What a reader of the file sees of one token without any key: a raw byte,
\* the bytes a base64 field decodes to (-1 for a byte that is the output of
\* the cipher), nothing for the other tokens.
ClearBytes(token) ==
    IF token.t = "byte" THEN <<token.v.num>>
    ELSE IF token.t = "field" /\ token.v.ok
         THEN [i \in 1..Len(token.v.dec) |->
                  IF Len(token.v.dec[i].seal) = 0 THEN token.v.dec[i].n ELSE -1]
         ELSE <<>>

RECURSIVE ClearText(_)
ClearText(content) ==
    IF content = <<>> THEN <<>>
    ELSE ClearBytes(content[1]) \o ClearText(SubSeq(content, 2, Len(content)))

\* The file holds the (nonempty) secret in the clear.
Holds(content, secret) ==
    /\ secret # <<>>
    /\ LET clear == ClearText(content)
       IN  \E i \in 0..(Len(clear) - Len(secret)) :
              SubSeq(clear, i + 1, i + Len(secret)) = secret

\* The file holds bytes of a derived key.
HoldsKey(content) ==
    \E i \in 1..Len(content) :
        /\ content[i].t = "field"
        /\ \E j \in 1..Len(content[i].v.dec) : Len(content[i].v.dec[j].seal) = 1

\* C13: across save_config, load_config, config_exists and delete_config
\* calls, no file ever holds a plaintext payload, a password or a derived key:
\* what a call writes of them is sealed under the cipher.
C13_NothingInTheClear ==
    \A path \in Paths :
        /\ \A secret \in Plaintexts \cup Passwords :
              ~Holds(fs[path].content, secret)
        /\ ~HoldsKey(fs[path].content)

\* A two-byte text has been saved under a password, and the file is its
\* envelope: the ciphertext is as long as the text and its tag.
C13_Witness ==
    /\ SaveDone
    /\ IsOk(result[Writer])
    /\ call[Writer].config_json = <<195, 169>>
    /\ call[Writer].password = <<112>>
    /\ Len(fs[ConfigPath].content[FieldIndex("data")].v.dec) = 2 + TAG_LEN

AllZero(data) == \A i \in 1..Len(data) : data[i] = 0
KeyAllZero(key) ==
    \A j \in 1..Len(key) : key[j].n = 0 /\ Len(key[j].seal) = 0

\* C14: zeroization.  When save_config or load_config has returned, with Ok
\* or with any error, the buffers of the SecureStrings it created (password,
\* text) and of the SecureKey it derived hold zeros only.
C14_Zeroized ==
    \A p \in Procs :
        (/\ pc[p] = "done"
         /\ call[p].op \in {"save", "load"}
         /\ result[p].kind \in {"Ok", "Err"})
            => /\ AllZero(loc[p].secure_password)
               /\ AllZero(loc[p].secure_config)
               /\ KeyAllZero(loc[p].secure_key)

\* A load_config that returned InvalidPassword after it had derived a key
\* from a one-byte password.
C14_Witness ==
    /\ LoadDone
    /\ IsErr(result[Reader], "InvalidPassword")
    /\ Len(loc[Reader].secure_password) = 1
    /\ Len(loc[Reader].secure_key) = KEY_LEN
    /\ KeyAllZero(loc[Reader].secure_key)

DebugDone(p) == pc[p] = "done" /\ call[p].op = "debug"

\* C15: the Debug output of a SecureString is the fixed text
\* "SecureString([REDACTED])" whatever it holds, so two SecureStrings of
\* different contents have the same output.
C15_DebugRedacted ==
    /\ \A p \in Procs :
          DebugDone(p) => result[p].val = <<"SecureString([REDACTED])">>
    /\ (DebugDone(Writer) /\ DebugDone(Reader))
          => result[Writer].val = result[Reader].val

\* Two SecureStrings of different bytes have been formatted.
C15_Witness ==
    /\ DebugDone(Writer)
    /\ DebugDone(Reader)
    /\ loc[Writer].secure_config = <<97>>
    /\ loc[Reader].secure_config = <<0, 255>>
    /\ result[Writer].val = result[Reader].val

C17_DeleteOrdering ==
    [][call[Writer].op = "delete" =>
        LET before == fs[ConfigPath]
            after == fs'[ConfigPath]
            n == loc'[Writer].file_size
            Reaches(label) == pc[Writer] # label /\ pc'[Writer] = label
        IN  /\ Reaches("del_rand_create")
                  => n > 0 /\ n = Len(before.content)
            /\ Reaches("del_zero_create")
                  => /\ after.exists
                     /\ after.content \in {RawBytes(n, r) : r \in RandomFills}
            /\ (Reaches("del_remove") /\ n > 0)
                  => /\ pc[Writer] = "del_zero_write"
                     /\ after.exists
                     /\ after.content = RawBytes(n, 0)
            /\ (before.exists /\ ~after.exists)
                  => /\ pc[Writer] = "del_remove"
                     /\ n > 0 => before.content = RawBytes(n, 0)
            /\ (Reaches("done") /\ IsOk(result'[Writer]))
                  => ~after.exists
      ]_vars

\* A delete_config of a saved envelope has gone through both overwrites of
\* the envelope's length and returned.
C17_Witness ==
    /\ DeleteDone
    /\ IsOk(result[Writer])
    /\ hist.before = "save"
    /\ loc[Writer].file_size = Len(to_string_pretty(
                                      EncryptedConfig(Literal(""), Literal(""),
                                                      Literal(""), Literal(""),
                                                      Literal(""), 0)))
    /\ loc[Writer].buf = RawBytes(loc[Writer].file_size, 0)
    /\ ~fs[ConfigPath].exists

\* C18: envelope metadata.  The envelope that save_config wrote has version
\* "1.0", algorithm "AES-256-GCM" and iterations 100000, its salt decodes to
\* 32 bytes and its nonce to 12 bytes, whatever text and password were saved;
\* and it passes every format gate of load_config: with any password the
\* result is Ok or InvalidPassword.
C18_EnvelopeMetadata ==
    Intact =>
        /\ HasEnvelope
        /\ StoredConfig.val.version = Literal("1.0")
        /\ StoredConfig.val.algorithm = Literal("AES-256-GCM")
        /\ StoredConfig.val.iterations = 100000
        /\ IsOk(Base64Decode(StoredConfig.val.data))
        /\ IsOk(Base64Decode(StoredConfig.val.salt))
        /\ Len(Base64Decode(StoredConfig.val.salt).val) = 32
        /\ IsOk(Base64Decode(StoredConfig.val.nonce))
        /\ Len(Base64Decode(StoredConfig.val.nonce).val) = 12
        /\ IsOk(CheckMetadata(StoredConfig.val))
        /\ \A password \in Passwords :
              LET r == LoadContent(fs[ConfigPath].content, password)
              IN  IsOk(r) \/ IsErr(r, "InvalidPassword")

\* The envelope of a two-byte text saved under the empty password with the
\* second salt that the random source can draw.
C18_Witness ==
    /\ SaveDone
    /\ Intact
    /\ hist.saved.config_json = <<195, 169>>
    /\ hist.saved.password = <<>>
    /\ StoredConfig.val.salt = Base64Encode(generate_secure_salt(2))
    /\ StoredConfig.val.iterations = PBKDF2_ITERATIONS

ExportDone == pc[Writer] = "done" /\ call[Writer].op = "export"
ImportDone == pc[Reader] = "done" /\ call[Reader].op = "import"

\* C19: export/import round trip.  When export_config of a text to a path
\* has returned, the file at the path holds the bytes of the text and
\* nothing else (it is no envelope), and an import_config from the path then
\* returns Ok with the text.
C19_ExportImport ==
    /\ (ExportDone /\ IsOk(result[Writer]))
          => LET file == fs[loc[Writer].path]
             IN  /\ file.exists
                 /\ \A i \in 1..Len(file.content) : file.content[i].t = "byte"
                 /\ TextBytes(file.content) = call[Writer].config_json
    /\ (/\ ImportDone
        /\ hist.exported.ok
        /\ loc[Reader].path = hist.exported.path)
          => /\ IsOk(result[Reader])
             /\ result[Reader].val = hist.exported.config_json

\* The two-byte text has been exported to the export path and imported back,
\* with an envelope at the config path.
C19_Witness ==
    /\ ImportDone
    /\ hist.exported.ok
    /\ hist.exported.path = ExportPath
    /\ loc[Reader].path = ExportPath
    /\ hist.exported.config_json = <<195, 169>>
    /\ hist.saved.ok
    /\ IsOk(result[Reader])

\* C20: import of a missing file.  An import_config from a path at which
\* there is no file returns ConfigNotFound (not Io), and no step of an
\* import_config creates or changes a file.
C20_ImportMissing ==
    [][(call'[Reader].op = "import" /\ pc'[Reader] # pc[Reader])
          => /\ fs' = fs
             /\ (pc'[Reader] = "done" /\ ~fs[loc[Reader].path].exists)
                   => IsErr(result'[Reader], "ConfigNotFound")
      ]_vars

\* An import_config from the export path, where there is no file, beside an
\* envelope at the config path.
C20_Witness ==
    /\ ImportDone
    /\ loc[Reader].path = ExportPath
    /\ ~fs[ExportPath].exists
    /\ fs[ConfigPath].exists
    /\ IsErr(result[Reader], "ConfigNotFound")

(***************************************************************************)
(* The download manager (download.rs): paths, and the files of the folders *)
(* it works in.  A path is absolute or relative and has components; a      *)
(* component is a sequence of characters.  While the download manager is   *)
(* at work, `fs' maps each existing file's path to its bytes.              *)
(***************************************************************************)
MAX_CANDIDATES == 1000

MaxFileLen == 2

PathOf(abs, parts) == [abs |-> abs, parts |-> parts]

RootDir == PathOf(TRUE, <<>>)
DownloadsDir == PathOf(TRUE, << <<"d">> >>)
Directories == {RootDir, DownloadsDir}

is_absolute(path) == path.abs

\* Path::parent: none for a path that ends in the root or is empty.
HasParent(path) == Len(path.parts) > 0
parent(path) == [path EXCEPT !.parts = SubSeq(@, 1, Len(@) - 1)]
join(dir, name) == [dir EXCEPT !.parts = Append(@, name)]
file_name(path) == path.parts[Len(path.parts)]

exists(files, path) == path \in DOMAIN files \/ path \in Directories

\* The last dot of a file name that is not its first character (0 if none):
\* what precedes it is the stem, what follows it the extension.
LastDot(name) ==
    LET dots == {i \in 2..Len(name) : name[i] = "."}
    IN  IF dots = {} THEN 0 ELSE CHOOSE i \in dots : \A j \in dots : j <= i

file_stem(name) ==
    IF LastDot(name) = 0 THEN name ELSE SubSeq(name, 1, LastDot(name) - 1)

extension(name) ==
    IF LastDot(name) = 0 THEN <<>>
    ELSE SubSeq(name, LastDot(name) + 1, Len(name))

\* The decimal digits of a number, as format! writes it.
RECURSIVE Decimal(_)
Decimal(n) ==
    LET digits == <<"0", "1", "2", "3", "4", "5", "6", "7", "8", "9">>
    IN  IF n < 10 THEN <<digits[n + 1]>>
        ELSE Append(Decimal(n \div 10), digits[(n % 10) + 1])

\* format!("{} ({})", stem, i) and format!("{} ({}).{}", stem, i, extension)
NumberedName(stem, i, ext) ==
    IF Len(ext) = 0 THEN stem \o <<" ", "(">> \o Decimal(i) \o <<")">>
    ELSE stem \o <<" ", "(">> \o Decimal(i) \o <<")", ".">> \o ext

\* format!("{}-{}", stem, timestamp) and format!("{}-{}.{}", ...)
TimestampName(stem, timestamp, ext) ==
    IF Len(ext) = 0 THEN stem \o <<"-">> \o Decimal(timestamp)
    ELSE stem \o <<"-">> \o Decimal(timestamp) \o <<".">> \o ext

\* The path itself if nothing is there; otherwise the first of the numbered
\* names beside it, 1 to MAX_CANDIDATES - 1, at which nothing is; otherwise
\* a name made of the time.  (Of a base path that has a file name.)
generate_unique_filename_unchecked(files, base_path, timestamp) ==
    IF ~exists(files, base_path) THEN base_path
    ELSE join(parent(base_path),
              NumberedName(file_stem(file_name(base_path)), 1,
                           extension(file_name(base_path))))

generate_unique_filename(files, base_path, timestamp) ==
    IF ~exists(files, base_path) THEN base_path
    ELSE LET dir == parent(base_path)
             stem == file_stem(file_name(base_path))
             ext == extension(file_name(base_path))
             free == {i \in 1..(MAX_CANDIDATES - 1) :
                         ~exists(files, join(dir, NumberedName(stem, i, ext)))}
         IN  IF free # {}
             THEN join(dir, NumberedName(stem,
                                CHOOSE i \in free : \A j \in free : i <= j,
                                ext))
             ELSE join(dir, TimestampName(stem, timestamp, ext))

\* A path is accepted if it is absolute and its parent, if it has one, exists
\* (an existing parent can be read, so fs::metadata of it succeeds).
validate_download_path_lenient(files, path) ==
    IF ~is_absolute(path)
    THEN Ok([DownloadsDir EXCEPT !.parts = @ \o path.parts])
    ELSE IF HasParent(path) /\ ~exists(files, parent(path))
         THEN Err("InvalidPath")
    ELSE Ok(path)

validate_download_path(files, path) ==
    IF ~is_absolute(path) THEN Err("InvalidPath")
    ELSE IF HasParent(path) /\ ~exists(files, parent(path))
         THEN Err("InvalidPath")
    ELSE Ok(path)

\* What one read at `offset' into a buffer of `length' bytes may return: no
\* byte at or past the end of the file or into an empty buffer, otherwise
\* some of the bytes from `offset' on, at least one and at most `length'.
ReadCounts(size, offset, length) ==
    LET available == IF offset >= size THEN 0 ELSE size - offset
        most == IF length < available THEN length ELSE available
    IN  IF most = 0 THEN {0} ELSE 1..most

(***************************************************************************)
(* The calls of the download manager, one at a time, on a downloads folder *)
(* in which earlier downloads have left files.                             *)
(***************************************************************************)
BaseNames ==
    {<<"t", ".", "x">>, <<"t">>, <<".", "h">>, <<"t", ".">>,
     <<"a", ".", "b", ".", "c">>}

MissingDir == PathOf(TRUE, << <<"m">> >>)

BasePaths ==
    {join(DownloadsDir, name) : name \in BaseNames}
        \cup {PathOf(FALSE, << <<"t", ".", "x">> >>)}

ArgPaths == BasePaths \cup {join(MissingDir, <<"t", ".", "x">>), RootDir}

ChunkPaths ==
    {join(DownloadsDir, <<"t", ".", "x">>), join(DownloadsDir, <<"t">>),
     join(MissingDir, <<"t", ".", "x">>)}

AppendPaths ==
    {join(DownloadsDir, <<"t", ".", "x">>), join(MissingDir, <<"t", ".", "x">>)}

Chunks == {<<72>>, <<105>>}

Timestamps == {1700000000}

\* The numbered names that earlier downloads of a file took beside it.
TakenBefore(base_path) ==
    {{}, {1}, {2}, {1, 2}}
        \cup IF base_path = join(DownloadsDir, <<"t", ".", "x">>)
             THEN {1..(MAX_CANDIDATES - 2), 1..(MAX_CANDIDATES - 1)}
             ELSE {}

NumberedPath(base_path, i) ==
    join(parent(base_path),
         NumberedName(file_stem(file_name(base_path)), i,
                      extension(file_name(base_path))))

NoDownloadCall ==
    [op |-> "none", path |-> RootDir, offset |-> 0, length |-> 0,
     timestamp |-> 0]

InitDownload ==
    /\ \/ fs = <<>>
       \/ \E base_path \in BasePaths :
            \E taken \in TakenBefore(base_path) :
               fs = [path \in {base_path}
                               \cup {NumberedPath(base_path, i) : i \in taken}
                        |-> <<>>]
    /\ pc = [p \in Procs |-> "idle"]
    /\ call = [p \in Procs |-> NoCall]
    /\ loc = [p \in Procs |-> NoLocals]
    /\ result = [p \in Procs |-> NoResult]
    /\ hist = [saved |-> NothingSaved, tampered |-> "no", placed |-> NothingPlaced,
               lastMut |-> "none", before |-> "none", first |-> NothingBefore,
               exported |-> NothingExported]

DownloadCall(p, c, r) ==
    /\ pc[p] = "idle"
    /\ call' = [call EXCEPT ![p] = c]
    /\ Finish(p, r)
    /\ UNCHANGED <<loc, hist>>

call_generate_unique_filename ==
    \E base_path \in BasePaths, timestamp \in Timestamps :
        /\ DownloadCall(Writer,
              [NoDownloadCall EXCEPT !.op = "generate_unique_filename",
                                     !.path = base_path,
                                     !.timestamp = timestamp],
              Ok(generate_unique_filename(fs, base_path, timestamp)))
        /\ UNCHANGED fs

call_validate_download_path ==
    \E path \in ArgPaths :
        /\ DownloadCall(Writer,
              [NoDownloadCall EXCEPT !.op = "validate_download_path",
                                     !.path = path],
              validate_download_path(fs, path))
        /\ UNCHANGED fs

\* append_to_file: the file is created if it is not there, and the data put
\* at its end; it cannot be created in a folder that does not exist.
call_append_to_file ==
    \E path \in AppendPaths, data \in Chunks :
        LET old == IF path \in DOMAIN fs THEN fs[path] ELSE <<>>
        IN  /\ Len(old) + Len(data) <= MaxFileLen
            /\ IF exists(fs, parent(path))
               THEN /\ fs' = [q \in DOMAIN fs \cup {path} |->
                                IF q = path THEN old \o data ELSE fs[q]]
                    /\ DownloadCall(Writer,
                          [NoDownloadCall EXCEPT !.op = "append_to_file",
                                                 !.path = path],
                          Ok("unit"))
               ELSE /\ fs' = fs
                    /\ DownloadCall(Writer,
                          [NoDownloadCall EXCEPT !.op = "append_to_file",
                                                 !.path = path],
                          Err("Io"))

\* read_file_chunk: open, seek to `offset', one read into a buffer of
\* `length' bytes, and the buffer cut to the bytes read.
call_read_file_chunk ==
    \E path \in ChunkPaths, offset \in 0..(MaxFileLen + 1),
       length \in 0..(MaxFileLen + 1) :
        /\ IF path \notin DOMAIN fs
           THEN DownloadCall(Writer,
                   [NoDownloadCall EXCEPT !.op = "read_file_chunk",
                       !.path = path, !.offset = offset, !.length = length],
                   Err("Failed to open file"))
           ELSE \E bytes_read \in ReadCounts(Len(fs[path]), offset, length) :
                   DownloadCall(Writer,
                      [NoDownloadCall EXCEPT !.op = "read_file_chunk",
                          !.path = path, !.offset = offset, !.length = length],
                      Ok(SubSeq(fs[path], offset + 1, offset + bytes_read)))
        /\ UNCHANGED fs

NextDownload ==
    \/ call_generate_unique_filename
    \/ call_validate_download_path
    \/ call_append_to_file
    \/ call_read_file_chunk
    \/ Return(Writer)

SpecDownload == InitDownload /\ [][NextDownload]_vars

(***************************************************************************)
(* Properties of the download manager.                                     *)
(***************************************************************************)
DownloadDone(op) == pc[Writer] = "done" /\ call[Writer].op = op

\* C21: unique file names.  generate_unique_filename returns the base path
\* itself when no file is there; otherwise the name "stem (i).ext", or
\* "stem (i)" if the base has no extension, in the folder of the base, for
\* the smallest i from 1 to 999 at which no file is.  Whenever fewer than
\* 999 of the numbered names are taken, no file is at the path returned.
C21_UniqueFilename ==
    DownloadDone("generate_unique_filename") =>
        LET base == call[Writer].path
            folder == SubSeq(base.parts, 1, Len(base.parts) - 1)
            stem == file_stem(file_name(base))
            ext == extension(file_name(base))
            tail == IF Len(ext) = 0 THEN <<>> ELSE <<".">> \o ext
            numbered(i) ==
                [abs |-> base.abs,
                 parts |-> Append(folder,
                              stem \o <<" ", "(">> \o Decimal(i) \o <<")">>
                                   \o tail)]
            taken == {i \in 1..999 : numbered(i) \in DOMAIN fs}
            r == result[Writer]
        IN  /\ IsOk(r)
            /\ base \notin DOMAIN fs => r.val = base
            /\ (base \in DOMAIN fs /\ taken # 1..999) =>
                  \E i \in 1..999 :
                      /\ i \notin taken
                      /\ \A j \in 1..(i - 1) : j \in taken
                      /\ r.val = numbered(i)
            /\ Cardinality(taken) < 999 => r.val \notin DOMAIN fs

\* A third download of t.x: the files t.x and "t (1).x" are there, and the
\* name returned is "t (2).x".
C21_Witness ==
    /\ DownloadDone("generate_unique_filename")
    /\ call[Writer].path = join(DownloadsDir, <<"t", ".", "x">>)
    /\ join(DownloadsDir, <<"t", " ", "(", "1", ")", ".", "x">>) \in DOMAIN fs
    /\ IsOk(result[Writer])
    /\ result[Writer].val
          = join(DownloadsDir, <<"t", " ", "(", "2", ")", ".", "x">>)

C23_ExactChunk ==
    DownloadDone("read_file_chunk") =>
        LET path == call[Writer].path
            offset == call[Writer].offset
            length == call[Writer].length
            r == result[Writer]
        IN  IF path \in DOMAIN fs
            THEN LET s == Len(fs[path])
                     end == IF offset + length < s THEN offset + length ELSE s
                 IN  /\ IsOk(r)
                     /\ Len(r.val) = (IF offset >= s THEN 0 ELSE end - offset)
                     /\ \A i \in 1..Len(r.val) : r.val[i] = fs[path][offset + i]
            ELSE r.kind = "Err"

(***************************************************************************)
(* load_config on files with several things wrong at once: a file at the   *)
(* config path that differs from an envelope of save_config in up to       *)
(* MaxDefects respects, each in another part of it.                        *)
(***************************************************************************)
MaxDefects == 2

\* What can be wrong, and the part of the file it is about.
DefectPart ==
    [unreadable |-> "file", unclosed |-> "file",
     omit_data |-> "data", data_base64 |-> "data",
     omit_salt |-> "salt", salt_base64 |-> "salt", salt_long |-> "salt",
     salt_empty |-> "salt",
     omit_nonce |-> "nonce", nonce_base64 |-> "nonce", nonce_short |-> "nonce",
     omit_version |-> "version", version |-> "version",
     omit_algorithm |-> "algorithm", algorithm |-> "algorithm",
     omit_iterations |-> "iterations", iterations |-> "iterations",
     not_utf8 |-> "text"]

Defects == DOMAIN DefectPart

Omissions ==
    {"omit_data", "omit_salt", "omit_nonce", "omit_version", "omit_algorithm",
     "omit_iterations"}

DefectSets ==
    {d \in SUBSET Defects :
        /\ Cardinality(d) <= MaxDefects
        /\ \A x, y \in d : DefectPart[x] = DefectPart[y] => x = y}

DefectiveFile(d, password) ==
    LET rounds == IF "iterations" \in d THEN OLD_ITERATIONS
                  ELSE PBKDF2_ITERATIONS
        salt == IF "salt_long" \in d
                THEN Fill((3 * SALT_MAX_CHARS) \div 4 + 1, 1)
                ELSE IF "salt_empty" \in d THEN <<>>
                ELSE Fill(SALT_LEN, 1)
        nonce == IF "nonce_short" \in d THEN Fill(NONCE_LEN - 4, 1)
                 ELSE Fill(NONCE_LEN, 1)
        text == IF "not_utf8" \in d THEN <<255>> ELSE <<195, 169>>
        key == Pbkdf2(password, salt, rounds)
        cfg == EncryptedConfig(
                   IF "data_base64" \in d THEN Literal("!")
                   ELSE Base64Encode(AesGcmEncrypt(key, nonce, text)),
                   IF "salt_base64" \in d THEN Literal("!")
                   ELSE Base64Encode(salt),
                   IF "nonce_base64" \in d THEN Literal("!")
                   ELSE Base64Encode(nonce),
                   IF "version" \in d THEN Literal("2.0")
                   ELSE Literal(ENCRYPTION_VERSION),
                   IF "algorithm" \in d THEN Literal("ChaCha20-Poly1305")
                   ELSE Literal(ENCRYPTION_ALGORITHM),
                   rounds)
        omitted == {DefectPart[x] : x \in d \cap Omissions}
        Kept(token) == token.t # "field" \/ token.k \notin omitted
        json == SelectSeq(to_string_pretty(cfg), Kept)
        closed == IF "unclosed" \in d THEN SubSeq(json, 1, Len(json) - 1)
                  ELSE json
    IN  IF "unreadable" \in d THEN closed \o RawBytes(1, 167) ELSE closed

\* Such a file is put at the config path, where no file was.
PlaceDefective(d, password) ==
    /\ AllIdle
    /\ ~fs[ConfigPath].exists
    /\ fs' = [fs EXCEPT ![ConfigPath] =
                [exists |-> TRUE, content |-> DefectiveFile(d, password),
                 mode |-> MODE_DEFAULT]]
    /\ hist' = [hist EXCEPT !.saved = NothingSaved, !.tampered = "no",
                            !.placed = [variant |-> d, password |-> password],
                            !.lastMut = "env", !.before = "none",
                            !.first = NothingBefore,
                            !.exported = IF @.path = ConfigPath
                                         THEN NothingExported ELSE @]
    /\ UNCHANGED <<pc, call, loc, result>>

place_defective_file ==
    \E d \in DefectSets, password \in Passwords : PlaceDefective(d, password)

NextLoad ==
    \/ place_defective_file
    \/ load_config
    \/ LoadExists(Reader)
    \/ LoadRead(Reader)
    \/ Return(Reader)

SpecLoad == Init /\ [][NextLoad]_vars

\* C24: the order of the checks of load_config.  It reports the first
\* check that fails: a missing file gives ConfigNotFound; an unreadable one
\* Io; malformed JSON Serialization, with every password; then a version or
\* algorithm that is not the current one Decryption; then malformed base64
\* of data, salt or nonce Decryption; then, the key derived and the nonce
\* built, a failed authentication InvalidPassword; and bytes that are not
\* UTF-8 give Decryption only once the authentication has succeeded.
C24_CheckOrder ==
    LoadDone =>
        LET r == result[Reader]
            d == hist.placed.variant
            failed == \/ call[Reader].password # hist.placed.password
                      \/ "iterations" \in d
        IN  IF ~fs[ConfigPath].exists THEN IsErr(r, "ConfigNotFound")
            ELSE IF "unreadable" \in d THEN IsErr(r, "Io")
            ELSE IF d \cap {"unclosed", "omit_data", "omit_salt", "omit_nonce"}
                       # {}
                 THEN IsErr(r, "Serialization")
            ELSE IF d \cap {"version", "algorithm"} # {}
                 THEN IsErr(r, "Decryption")
            ELSE IF d \cap {"data_base64", "salt_base64", "nonce_base64"} # {}
                 THEN IsErr(r, "Decryption")
            ELSE IF d \cap {"salt_long", "nonce_short"} # {} THEN TRUE
            ELSE IF failed THEN IsErr(r, "InvalidPassword")
            ELSE IF "not_utf8" \in d THEN IsErr(r, "Decryption")
            ELSE IsOk(r) /\ r.val = <<195, 169>>

\* A file with malformed JSON and another version, read with a password
\* that is not the one it was sealed with: Serialization.
C24_Witness ==
    /\ LoadDone
    /\ fs[ConfigPath].exists
    /\ hist.placed.variant = {"unclosed", "version"}
    /\ call[Reader].password # hist.placed.password
    /\ IsErr(result[Reader], "Serialization")

\* C25: load_config never returns the Encryption error kind.  For every
\* content of the envelope, a stored salt that decodes to zero bytes or to
\* more than 48 bytes included, its errors are only ConfigNotFound, Io,
\* Serialization, Decryption or InvalidPassword.
C25_NoEncryptionKind ==
    LoadDone =>
        /\ ~IsErr(result[Reader], "Encryption")
        /\ result[Reader].kind = "Err" =>
              result[Reader].val \in {"ConfigNotFound", "Io", "Serialization",
                                      "Decryption", "InvalidPassword"}

\* C26: load_config beside delete_config.  A load_config that runs while
\* delete_config deletes a saved envelope returns Ok, InvalidPassword or
\* ConfigNotFound: never Io or Serialization, neither because the file went
\* away between its existence check and its read, nor because it read the
\* random or the zero overwrite.
C26_LoadDuringDelete ==
    [][(/\ call[Writer].op = "delete"
        /\ hist.before = "save"
        /\ call[Reader].op = "load"
        /\ pc[Reader] # "done"
        /\ pc'[Reader] = "done")
          => \/ IsOk(result'[Reader])
             \/ IsErr(result'[Reader], "InvalidPassword")
             \/ IsErr(result'[Reader], "ConfigNotFound")]_vars

(***************************************************************************)
(* save_config on a file system whose calls can fail: File::create, a      *)
(* write of write_all, and fs::metadata or fs::set_permissions after the   *)
(* write each return an error in place of doing their work, and `?' makes  *)
(* save_config return it as Io.                                            *)
(***************************************************************************)
SaveFails(p) ==
    /\ Finish(p, Err("Io"))
    /\ loc' = [loc EXCEPT ![p] = Dropped(@)]
    /\ UNCHANGED <<fs, call, hist>>

\* Line 228: the file cannot be opened for writing; it is left as it was.
CreateFails(p) == pc[p] = "save_create" /\ SaveFails(p)

\* Line 228: a write fails, after File::create has truncated the file and
\* earlier writes have put part of the buffer in it.
WriteFails(p) ==
    /\ pc[p] = "save_write"
    /\ Len(fs[loc[p].path].content) < Len(loc[p].buf)
    /\ SaveFails(p)

\* Lines 233-235: the mode cannot be read or set; the file is written.
ChmodFails(p) == pc[p] = "save_chmod" /\ SaveFails(p)

StepFaulty ==
    \E p \in Procs :
        \/ FsCreate(p)
        \/ FsWrite(p)
        \/ FsWritten(p)
        \/ SaveChmod(p)
        \/ CreateFails(p)
        \/ WriteFails(p)
        \/ ChmodFails(p)
        \/ LoadExists(p)
        \/ LoadRead(p)
        \/ Return(p)

NextFaulty == first_draw_save_config \/ load_config \/ StepFaulty

SpecFaulty == Init /\ [][NextFaulty]_vars

\* C27: state unchanged on error.  Whenever save_config returns an error,
\* a failure of the metadata or set_permissions step after the write
\* included, the envelope file is exactly what it was before the call, so
\* that an envelope stored before is still loadable with its password.
C27_UnchangedOnError ==
    (SaveDone /\ result[Writer].kind = "Err" /\ hist.first.ok) =>
        /\ fs[ConfigPath].exists
        /\ fs[ConfigPath].content = hist.first.content
        /\ LET r == LoadContent(fs[ConfigPath].content, hist.first.password)
           IN  IsOk(r) /\ r.val = hist.first.config_json

\* C28: owner-only mode throughout.  In every state in which the envelope
\* file holds envelope data written by save_config, the states inside a
\* save_config that creates the file included, the mode of the file is
\* owner read/write (0600).
C28_OwnerOnlyThroughout ==
    (/\ fs[ConfigPath].exists
     /\ \/ Intact
        \/ /\ call[Writer].op = "save"
           /\ pc[Writer] \in {"save_write", "save_chmod"}
           /\ Len(fs[ConfigPath].content) > 0)
        => fs[ConfigPath].mode = MODE_OWNER_ONLY

\* C29 as stated: export_config and import_config never change the
\* envelope file, whatever the path, the config path included: the stored
\* envelope is unchanged, and when export_config has returned a load_config
\* with the saved password still returns the saved text.
C29_EnvelopeUntouched ==
    [][/\ (call'[Writer].op = "export" \/ call'[Reader].op = "import")
             => fs'[ConfigPath] = fs[ConfigPath]
       /\ (/\ call'[Writer].op = "export"
           /\ pc'[Writer] = "done"
           /\ hist.saved.ok /\ hist.tampered = "no")
             => LET r == LoadContent(fs'[ConfigPath].content,
                                     hist.saved.password)
                IN  IsOk(r) /\ r.val = hist.saved.config_json
      ]_vars

\* C29: the envelope beside an export or import.  An export_config to a
\* path other than the config path, and an import_config from any path,
\* never change the envelope file: the stored envelope is unchanged, and
\* when export_config has returned a load_config with the saved password
\* still returns the saved text.
C29_EnvelopeFrame ==
    [][/\ (\/ call'[Writer].op = "export" /\ loc'[Writer].path # ConfigPath
           \/ call'[Reader].op = "import")
             => fs'[ConfigPath] = fs[ConfigPath]
       /\ (/\ call'[Writer].op = "export"
           /\ loc'[Writer].path # ConfigPath
           /\ pc'[Writer] = "done"
           /\ hist.saved.ok /\ hist.tampered = "no")
             => LET r == LoadContent(fs'[ConfigPath].content,
                                     hist.saved.password)
                IN  IsOk(r) /\ r.val = hist.saved.config_json
      ]_vars

\* An export_config to the export path has returned, beside the envelope
\* that a save_config had stored.
C29_Witness ==
    /\ ExportDone
    /\ IsOk(result[Writer])
    /\ loc[Writer].path = ExportPath
    /\ fs[ExportPath].exists
    /\ Intact
    /\ fs[ConfigPath].exists
    /\ hist.saved.config_json = <<97>>

\* C30: fields left out of the envelope file.  A file without its version,
\* algorithm or iterations field is read by load_config as if the field
\* held the current default ("1.0", "AES-256-GCM", 100000): it passes the
\* compatibility gate and, with the right password, decrypts to the text;
\* a file without its data, salt or nonce field gives Serialization.
C30_OmittedFields ==
    (LoadDone /\ fs[ConfigPath].exists) =>
        LET r == result[Reader]
            d == hist.placed.variant
            parsed == from_str(fs[ConfigPath].content)
            whole == from_str(DefectiveFile({}, hist.placed.password))
        IN  /\ (d # {} /\ d \subseteq {"omit_version", "omit_algorithm",
                                       "omit_iterations"})
                  => /\ IsOk(parsed)
                     /\ parsed.val.version = Literal("1.0")
                     /\ parsed.val.algorithm = Literal("AES-256-GCM")
                     /\ parsed.val.iterations = 100000
                     /\ parsed.val = whole.val
                     /\ IsOk(CheckMetadata(parsed.val))
                     /\ call[Reader].password = hist.placed.password
                           => IsOk(r) /\ r.val = <<195, 169>>
                     /\ call[Reader].password # hist.placed.password
                           => IsErr(r, "InvalidPassword")
            /\ (/\ d \cap {"omit_data", "omit_salt", "omit_nonce"} # {}
                /\ "unreadable" \notin d)
                  => IsErr(r, "Serialization")

\* A file without version and without iterations, read with its password.
C30_Witness ==
    /\ LoadDone
    /\ fs[ConfigPath].exists
    /\ hist.placed.variant = {"omit_version", "omit_iterations"}
    /\ call[Reader].password = hist.placed.password
    /\ IsOk(result[Reader])
    /\ Len(fs[ConfigPath].content) = 6

====
